---- MODULE Spec2Model ----
(***************************************************************************)
(* Model of src/config/builder.rs: the ConfigBuilder aggregate, its merge  *)
(* engine (append) and its pipeline expansion engine (merge_pipelines).    *)
(*                                                                         *)
(* A ConfigBuilder is a record.  An IndexMap is a sequence of              *)
(* [key, value] records with pairwise distinct keys (insertion order is    *)
(* the order of the sequence); a Vec is a sequence; an Option is <<>>      *)
(* (None) or <<v>> (Some(v)).  Component configurations are opaque to the  *)
(* builder, so they are modelled by tokens.  The build modelled is the     *)
(* one without the "api" feature (lines 20-22, 56-57, 107-108, 190-193     *)
(* are compiled out).                                                      *)
(***************************************************************************)
EXTENDS Integers, Sequences, FiniteSets, TLC

VARIABLES
    self,      \* the builder an operation works on (&mut self / mut self)
    with,      \* the builder handed to append
    pre,       \* self as it was when the last operation was called
    errors,    \* the Vec<String> the last operation accumulated
    result,    \* "none" before any call, afterwards what the call returned
    calls      \* the add_* and From<Config> calls made so far, with their arguments

vars == <<self, with, pre, errors, result, calls>>

-----------------------------------------------------------------------------
(* Option<T> *)

None == <<>>

Some(x) == <<x>>

(* ComponentId: a name in the global scope or in the scope of a pipeline.  *)

GlobalScope == [kind |-> "global"]

PipelineScope(pipeline) == [kind |-> "pipeline", pipeline |-> pipeline]

global(id) == [id |-> id, scope |-> GlobalScope]

pipeline_id(pipeline, id) == [id |-> id, scope |-> PipelineScope(pipeline)]

is_global(c) == c.scope = GlobalScope

\* Display of a ComponentId, as the format! calls of the builder print it.
display(c) ==
    IF is_global(c) THEN c.id ELSE c.scope.pipeline \o "#" \o c.id

-----------------------------------------------------------------------------
(* IndexMap<K, V> *)

keys(m) == [i \in 1..Len(m) |-> m[i].key]

key_set(m) == {m[i].key : i \in 1..Len(m)}

contains_key(m, k) == \E i \in 1..Len(m) : m[i].key = k

get_index_of(m, k) == CHOOSE i \in 1..Len(m) : m[i].key = k

get(m, k) == m[get_index_of(m, k)].value

\* insert: an existing key keeps its position and takes the new value,
\* a new key goes to the end.
insert(m, k, v) ==
    IF contains_key(m, k)
    THEN [m EXCEPT ![get_index_of(m, k)] = [key |-> k, value |-> v]]
    ELSE Append(m, [key |-> k, value |-> v])

\* extend: insert every entry of the other map, in its order.
RECURSIVE extend(_, _)
extend(m, other) ==
    IF other = <<>> THEN m
    ELSE extend(insert(m, Head(other).key, Head(other).value), Tail(other))

-----------------------------------------------------------------------------
(* Global options, healthchecks *)

default_data_dir == Some("/var/lib/vector")

LogSchemaFields == <<"host_key", "message_key">>

LogSchemaDefault == [f \in {"host_key", "message_key"} |->
                        IF f = "host_key" THEN "host" ELSE "message"]

\* LogSchema::merge: field by field; a field set to a non-default value on
\* both sides with different values is one error, and the other fields are
\* still merged.  Returns the merged schema and the errors.
RECURSIVE log_schema_merge_from(_, _, _, _)
log_schema_merge_from(i, mine, other, errs) ==
    IF i > Len(LogSchemaFields) THEN [schema |-> mine, errors |-> errs]
    ELSE LET f == LogSchemaFields[i] IN
         IF other[f] = LogSchemaDefault[f]
         THEN log_schema_merge_from(i + 1, mine, other, errs)
         ELSE IF mine[f] # LogSchemaDefault[f] /\ mine[f] # other[f]
         THEN log_schema_merge_from(i + 1, mine, other,
                  Append(errs, "conflicting values for 'log_schema." \o f \o "' found"))
         ELSE log_schema_merge_from(i + 1, [mine EXCEPT ![f] = other[f]], other, errs)

log_schema_merge(mine, other) == log_schema_merge_from(1, mine, other, <<>>)

HealthcheckDefault == [enabled |-> TRUE, require_healthy |-> FALSE]

\* HealthcheckOptions::merge: an option a fragment moved off its default wins.
healthchecks_merge(mine, other) ==
    [enabled |-> mine.enabled /\ other.enabled,
     require_healthy |-> mine.require_healthy \/ other.require_healthy]

GlobalDefault == [data_dir |-> None, log_schema |-> LogSchemaDefault]

-----------------------------------------------------------------------------
(* ConfigBuilder *)

ConfigBuilderDefault ==
    [global            |-> GlobalDefault,
     healthchecks      |-> HealthcheckDefault,
     enrichment_tables |-> <<>>,
     sources           |-> <<>>,
     sinks             |-> <<>>,
     transforms        |-> <<>>,
     tests             |-> <<>>,
     provider          |-> None,
     pipelines         |-> <<>>]

EnrichmentTableOuter(inner) == [inner |-> inner]

SourceOuter(inner) == [inner |-> inner]

SinkOuter(inputs, inner) == [inputs |-> inputs, inner |-> inner]

TransformOuter(inputs, inner) == [inputs |-> inputs, inner |-> inner]

TestDefinition(name, body) == [name |-> name, body |-> body]

-----------------------------------------------------------------------------
(* Pipelines: an IndexMap from pipeline name to Pipeline; a Pipeline is an *)
(* IndexMap from local transform name to PipelineTransform, which is a     *)
(* TransformOuter (inner) and the ComponentIds of its outputs.             *)

PipelineTransform(inner, outputs) == [inner |-> inner, outputs |-> outputs]

Pipeline(transforms) == [transforms |-> transforms]

\* Pipeline::into_scoped: the transforms of one pipeline under scoped ids.
pipeline_into_scoped(name, pipeline) ==
    [i \in 1..Len(pipeline.transforms) |->
        [component_id |-> pipeline_id(name, pipeline.transforms[i].key),
         transform    |-> pipeline.transforms[i].value]]

\* Pipelines::into_scoped: every pipeline flattened, in declaration order.
RECURSIVE into_scoped(_)
into_scoped(pipelines) ==
    IF pipelines = <<>> THEN <<>>
    ELSE pipeline_into_scoped(Head(pipelines).key, Head(pipelines).value)
         \o into_scoped(Tail(pipelines))

\* A transform declared in a pipeline: the pipeline is created when it is
\* its first, and the transform replaces one of the same local name.
declare_in_pipeline(pipelines, p, n, transform) ==
    LET pipeline == IF contains_key(pipelines, p) THEN get(pipelines, p)
                    ELSE Pipeline(<<>>)
    IN  insert(pipelines, p, Pipeline(insert(pipeline.transforms, n, transform)))

-----------------------------------------------------------------------------
(* ConfigBuilder::append, lines 187-251 *)

\* A provider that is only replaced when with has one.
AppendProviderKeepsOnNone(s, w) ==
    IF w.provider = None THEN s.provider ELSE w.provider

\* line 195: with's provider replaces self's.
append_provider(s, w) == w.provider

\* A data directory that is only adopted when with has one.
AppendDataDirAdoptsOnlySet(s, w) ==
    IF s.global.data_dir = None \/ s.global.data_dir = default_data_dir
    THEN [data_dir |-> IF w.global.data_dir = None THEN s.global.data_dir
                       ELSE w.global.data_dir,
          errors   |-> <<>>]
    ELSE IF w.global.data_dir # default_data_dir
            /\ s.global.data_dir # w.global.data_dir
    THEN [data_dir |-> s.global.data_dir,
          errors   |-> <<"conflicting values for 'data_dir' found">>]
    ELSE [data_dir |-> s.global.data_dir, errors |-> <<>>]

\* A conflict that is only raised when with has a data directory.
AppendDataDirNoConflictOnUnset(s, w) ==
    IF s.global.data_dir = None \/ s.global.data_dir = default_data_dir
    THEN [data_dir |-> w.global.data_dir, errors |-> <<>>]
    ELSE IF w.global.data_dir # None
            /\ w.global.data_dir # default_data_dir
            /\ s.global.data_dir # w.global.data_dir
    THEN [data_dir |-> s.global.data_dir,
          errors   |-> <<"conflicting values for 'data_dir' found">>]
    ELSE [data_dir |-> s.global.data_dir, errors |-> <<>>]

\* lines 197-205: the data directory self ends with, and the error pushed.
append_data_dir(s, w) ==
    IF s.global.data_dir = None \/ s.global.data_dir = default_data_dir
    THEN [data_dir |-> w.global.data_dir, errors |-> <<>>]
    ELSE IF w.global.data_dir # default_data_dir
            /\ s.global.data_dir # w.global.data_dir
    THEN [data_dir |-> s.global.data_dir,
          errors   |-> <<"conflicting values for 'data_dir' found">>]
    ELSE [data_dir |-> s.global.data_dir, errors |-> <<>>]

\* A check that reports the first duplicate only.
RECURSIVE DuplicateErrorsFirstOnly(_, _, _)
DuplicateErrorsFirstOnly(mine, other_keys, message) ==
    IF other_keys = <<>> THEN <<>>
    ELSE IF contains_key(mine, Head(other_keys))
    THEN <<message \o display(Head(other_keys))>>
    ELSE DuplicateErrorsFirstOnly(mine, Tail(other_keys), message)

\* One `with.<collection>.keys().for_each(...)` block: an error for every
\* key of other that mine contains, in other's order.
RECURSIVE duplicate_errors(_, _, _)
duplicate_errors(mine, other_keys, message) ==
    IF other_keys = <<>> THEN <<>>
    ELSE (IF contains_key(mine, Head(other_keys))
          THEN <<message \o display(Head(other_keys))>>
          ELSE <<>>)
         \o duplicate_errors(mine, Tail(other_keys), message)

\* lines 235-239: an error for every test of with whose name a test of self has.
RECURSIVE duplicate_test_errors(_, _)
duplicate_test_errors(mine, other) ==
    IF other = <<>> THEN <<>>
    ELSE (IF \E i \in 1..Len(mine) : mine[i].name = Head(other).name
          THEN <<"duplicate test name found: " \o Head(other).name>>
          ELSE <<>>)
         \o duplicate_test_errors(mine, Tail(other))

\* The duplicate checks without the one on the tests.
AppendDuplicatesWithoutTests(s, w) ==
    duplicate_errors(s.enrichment_tables, keys(w.enrichment_tables),
                     "duplicate enrichment_table name found: ")
    \o duplicate_errors(s.sources, keys(w.sources), "duplicate source id found: ")
    \o duplicate_errors(s.sinks, keys(w.sinks), "duplicate sink id found: ")
    \o duplicate_errors(s.transforms, keys(w.transforms),
                        "duplicate transform id found: ")

\* lines 215-239: the five duplicate checks, in the order of the code.
append_duplicates(s, w) ==
    duplicate_errors(s.enrichment_tables, keys(w.enrichment_tables),
                     "duplicate enrichment_table name found: ")
    \o duplicate_errors(s.sources, keys(w.sources), "duplicate source id found: ")
    \o duplicate_errors(s.sinks, keys(w.sinks), "duplicate sink id found: ")
    \o duplicate_errors(s.transforms, keys(w.transforms),
                        "duplicate transform id found: ")
    \o duplicate_test_errors(s.tests, w.tests)

\* An extension that puts the entries of w in front of those of s.
AppendExtendInFront(s, w) ==
    [s EXCEPT !.enrichment_tables = extend(w.enrichment_tables, s.enrichment_tables),
              !.sources           = extend(w.sources, s.sources),
              !.sinks             = extend(w.sinks, s.sinks),
              !.transforms        = extend(w.transforms, s.transforms),
              !.tests             = w.tests \o s.tests]

\* lines 244-248: the collections of s extended with those of w.
append_extend(s, w) ==
    [s EXCEPT !.enrichment_tables = extend(s.enrichment_tables, w.enrichment_tables),
              !.sources           = extend(s.sources, w.sources),
              !.sinks             = extend(s.sinks, w.sinks),
              !.transforms        = extend(s.transforms, w.transforms),
              !.tests             = s.tests \o w.tests]

\* The whole call: the builder self is afterwards, the errors accumulated
\* and the Result returned.
append(s, w) ==
    LET dd     == append_data_dir(s, w)
        ls     == log_schema_merge(s.global.log_schema, w.global.log_schema)
        early  == [s EXCEPT !.provider          = append_provider(s, w),
                            !.global.data_dir   = dd.data_dir,
                            !.global.log_schema = ls.schema,
                            !.healthchecks      = healthchecks_merge(s.healthchecks,
                                                                     w.healthchecks)]
        errs   == dd.errors \o ls.errors \o append_duplicates(early, w)
    IN  IF errs # <<>>
        THEN [builder |-> early, errors |-> errs, result |-> "Err"]
        ELSE [builder |-> append_extend(early, w), errors |-> errs, result |-> "Ok"]

-----------------------------------------------------------------------------
(* The builders append is applied to.  A builder is the default builder    *)
(* with at most MaxWeight settings made on it: a scalar field set, an      *)
(* entity inserted under a global id (as add_source, add_sink, ... and     *)
(* deserialization do), a test pushed.  The payloads of a builder carry    *)
(* its tag, so that an entry of self and an entry of with are told apart.  *)

MaxWeight == 2

\* with can also use a name that self never has.
ComponentNames(tag) == IF tag = "with" THEN {"foo", "bar", "baz"} ELSE {"foo", "bar"}

CustomDataDirs == {"/data/a", "/data/b"}

TagInputs(tag) == IF tag = "self" THEN <<global("in")>> ELSE <<>>

AppendSettings(tag) ==
    {[field |-> "provider", value |-> "provider_" \o tag]}
    \cup {[field |-> "data_dir", value |-> d] :
              d \in {default_data_dir[1]} \cup CustomDataDirs}
    \cup {[field |-> "host_key", value |-> "host_" \o tag],
          [field |-> "enabled", value |-> "false"],
          [field |-> "pipelines", value |-> "pipeline_" \o tag]}
    \cup {[field |-> c, value |-> n] :
              c \in {"enrichment_tables", "sources", "sinks", "transforms", "tests"},
              n \in ComponentNames(tag)}

ApplySetting(b, f, tag) ==
    CASE f.field = "provider"    -> [b EXCEPT !.provider = Some(f.value)]
      [] f.field = "data_dir"    -> [b EXCEPT !.global.data_dir = Some(f.value)]
      [] f.field = "host_key"    -> [b EXCEPT !.global.log_schema.host_key = f.value]
      [] f.field = "enabled"     -> [b EXCEPT !.healthchecks.enabled = FALSE]
      [] f.field = "pipelines" ->
             [b EXCEPT !.pipelines =
                 declare_in_pipeline(@, f.value, "remap",
                     PipelineTransform(TransformOuter(TagInputs(tag), "remap_" \o tag),
                                       <<>>))]
      [] f.field = "enrichment_tables" ->
             [b EXCEPT !.enrichment_tables =
                 insert(@, global(f.value), EnrichmentTableOuter("table_" \o tag))]
      [] f.field = "sources" ->
             [b EXCEPT !.sources = insert(@, global(f.value), SourceOuter("source_" \o tag))]
      [] f.field = "sinks" ->
             [b EXCEPT !.sinks =
                 insert(@, global(f.value), SinkOuter(TagInputs(tag), "sink_" \o tag))]
      [] f.field = "transforms" ->
             [b EXCEPT !.transforms =
                 insert(@, global(f.value),
                        TransformOuter(TagInputs(tag), "transform_" \o tag))]
      [] f.field = "tests" ->
             [b EXCEPT !.tests = Append(@, TestDefinition(f.value, "test_" \o tag))]

RECURSIVE AppendBuilders(_, _)
AppendBuilders(tag, weight) ==
    IF weight = 0 THEN {ConfigBuilderDefault}
    ELSE LET lighter == AppendBuilders(tag, weight - 1)
         IN  lighter \cup {ApplySetting(b, f, tag) :
                               b \in lighter, f \in AppendSettings(tag)}

InitAppend ==
    /\ self \in AppendBuilders("self", MaxWeight)
    /\ with \in AppendBuilders("with", MaxWeight)
    /\ pre = self
    /\ errors = <<>>
    /\ result = "none"
    /\ calls = <<>>

\* self.append(with)
AppendCall ==
    /\ result = "none"
    /\ LET r == append(self, with)
       IN  /\ self' = r.builder
           /\ errors' = r.errors
           /\ result' = r.result
    /\ pre' = self
    /\ UNCHANGED <<with, calls>>

NextAppend == AppendCall

SpecAppend == InitAppend /\ [][NextAppend]_vars

-----------------------------------------------------------------------------
(* ConfigBuilder::merge_pipelines, lines 73-120 *)

\* The occupied names taken from the ids of every scope.
GlobalTransformsAnyScope(s) ==
    {k.id : k \in key_set(s.transforms) \cup key_set(s.sources)}

\* The occupied names without those of the sources.
GlobalTransformsWithoutSources(s) ==
    {k.id : k \in {k \in key_set(s.transforms) : is_global(k)}}

\* lines 75-81: the ids (without scope) of the global-scope transforms and
\* sources of the builder.
global_transforms(s) ==
    {k.id : k \in {k \in key_set(s.transforms) \cup key_set(s.sources) : is_global(k)}}

\* A check that also looks at the transforms inserted so far.
IsAlreadyUsedInProgress(occupied, acc, component_id) ==
    \/ component_id.id \in occupied
    \/ \E k \in key_set(acc.transforms) : k.id = component_id.id

\* line 84: the check that rejects a pipeline transform.
is_already_used(occupied, acc, component_id) == component_id.id \in occupied

\* An input put in front of the inputs of the entry of key k.
PushInputInFront(m, k, component_id) ==
    [m EXCEPT ![get_index_of(m, k)].value.inputs = <<component_id>> \o @]

\* push on the inputs of the entry of key k.
push_input(m, k, component_id) ==
    [m EXCEPT ![get_index_of(m, k)].value.inputs = Append(@, component_id)]

\* An output that is looked up among the sinks first.
WireOutputSinkFirst(acc, component_id, output) ==
    IF contains_key(acc.sinks, output)
    THEN [acc EXCEPT !.sinks = push_input(@, output, component_id)]
    ELSE IF contains_key(acc.transforms, output)
    THEN [acc EXCEPT !.transforms = push_input(@, output, component_id)]
    ELSE [acc EXCEPT !.errors =
              Append(@, "Couldn't find transform or sink '" \o display(output) \o "'")]

\* lines 92-98: one output of a pipeline transform.  acc holds the
\* transforms, the sinks and the errors so far.
wire_output(acc, component_id, output) ==
    IF contains_key(acc.transforms, output)
    THEN [acc EXCEPT !.transforms = push_input(@, output, component_id)]
    ELSE IF contains_key(acc.sinks, output)
    THEN [acc EXCEPT !.sinks = push_input(@, output, component_id)]
    ELSE [acc EXCEPT !.errors =
              Append(@, "Couldn't find transform or sink '" \o display(output) \o "'")]

\* A loop over the outputs that an unresolved output ends.
RECURSIVE WireOutputsStopAtUnresolved(_, _, _)
WireOutputsStopAtUnresolved(acc, component_id, outputs) ==
    IF outputs = <<>> THEN acc
    ELSE LET next == wire_output(acc, component_id, Head(outputs))
         IN  IF next.errors # acc.errors THEN next
             ELSE WireOutputsStopAtUnresolved(next, component_id, Tail(outputs))

\* lines 91-99: the outputs in declaration order.
RECURSIVE wire_outputs(_, _, _)
wire_outputs(acc, component_id, outputs) ==
    IF outputs = <<>> THEN acc
    ELSE wire_outputs(wire_output(acc, component_id, Head(outputs)),
                      component_id, Tail(outputs))

\* A rejected transform whose outputs are wired all the same.
ExpandTransformWiresRejected(occupied, acc, component_id, pipeline_transform) ==
    LET wired == wire_outputs(acc, component_id, pipeline_transform.outputs)
    IN  IF is_already_used(occupied, acc, component_id)
        THEN [wired EXCEPT !.errors =
                 Append(@, "Component ID '" \o component_id.id \o "' is already used.")]
        ELSE [wired EXCEPT !.transforms =
                 insert(@, component_id, pipeline_transform.inner)]

\* A transform that is only inserted when all its outputs resolved.
ExpandTransformDropsUnresolved(occupied, acc, component_id, pipeline_transform) ==
    IF is_already_used(occupied, acc, component_id)
    THEN [acc EXCEPT !.errors =
              Append(@, "Component ID '" \o component_id.id \o "' is already used.")]
    ELSE LET wired == wire_outputs(acc, component_id, pipeline_transform.outputs)
         IN  IF wired.errors # acc.errors THEN wired
             ELSE [wired EXCEPT !.transforms =
                      insert(@, component_id, pipeline_transform.inner)]

\* lines 84-101: one (component_id, pipeline_transform) of the loop.
expand_transform(occupied, acc, component_id, pipeline_transform) ==
    IF is_already_used(occupied, acc, component_id)
    THEN [acc EXCEPT !.errors =
              Append(@, "Component ID '" \o component_id.id \o "' is already used.")]
    ELSE LET wired == wire_outputs(acc, component_id, pipeline_transform.outputs)
         IN  [wired EXCEPT !.transforms =
                  insert(@, component_id, pipeline_transform.inner)]

\* lines 83-102: the loop.
RECURSIVE expand_transforms(_, _, _)
expand_transforms(occupied, acc, scoped) ==
    IF scoped = <<>> THEN acc
    ELSE expand_transforms(occupied,
                           expand_transform(occupied, acc, Head(scoped).component_id,
                                            Head(scoped).transform),
                           Tail(scoped))

\* A call that returns the builder with its pipelines.
MergePipelinesKeepsPipelines(s) ==
    LET acc == expand_transforms(global_transforms(s),
                                 [transforms |-> s.transforms,
                                  sinks      |-> s.sinks,
                                  errors     |-> <<>>],
                                 into_scoped(s.pipelines))
    IN  [builder |-> [global            |-> s.global,
                      healthchecks      |-> s.healthchecks,
                      sources           |-> s.sources,
                      sinks             |-> acc.sinks,
                      transforms        |-> acc.transforms,
                      provider          |-> None,
                      tests             |-> s.tests,
                      enrichment_tables |-> s.enrichment_tables,
                      pipelines         |-> s.pipelines],
         errors  |-> acc.errors]

\* A call that returns the builder with its provider.
MergePipelinesKeepsProvider(s) ==
    LET acc == expand_transforms(global_transforms(s),
                                 [transforms |-> s.transforms,
                                  sinks      |-> s.sinks,
                                  errors     |-> <<>>],
                                 into_scoped(s.pipelines))
    IN  [builder |-> [global            |-> s.global,
                      healthchecks      |-> s.healthchecks,
                      sources           |-> s.sources,
                      sinks             |-> acc.sinks,
                      transforms        |-> acc.transforms,
                      provider          |-> s.provider,
                      tests             |-> s.tests,
                      enrichment_tables |-> s.enrichment_tables,
                      pipelines         |-> <<>>],
         errors  |-> acc.errors]

\* The whole call: the builder returned and the errors returned.
merge_pipelines(s) ==
    LET acc == expand_transforms(global_transforms(s),
                                 [transforms |-> s.transforms,
                                  sinks      |-> s.sinks,
                                  errors     |-> <<>>],
                                 into_scoped(s.pipelines))
    IN  [builder |-> [global            |-> s.global,
                      healthchecks      |-> s.healthchecks,
                      sources           |-> s.sources,
                      sinks             |-> acc.sinks,
                      transforms        |-> acc.transforms,
                      provider          |-> None,
                      tests             |-> s.tests,
                      enrichment_tables |-> s.enrichment_tables,
                      pipelines         |-> <<>>],
         errors  |-> acc.errors]

-----------------------------------------------------------------------------
(* The builders merge_pipelines is applied to: the builder of the tests    *)
(* (one source, logs) with at most MaxDeclared more declarations: a        *)
(* global source, transform, sink or enrichment table, a transform left    *)
(* by an earlier expansion, a transform declared in a pipeline, a scalar.  *)

MaxDeclared == 3

PipelineNames == {"foo", "bar"}

LocalNames == {"bar", "remap"}

OutputChoices ==
    {<<>>, <<"print">>, <<"nope">>, <<"bar">>,
     <<"print", "nope">>, <<"nope", "print">>, <<"nope", "gone">>, <<"bar", "print">>}

LogsInputs == <<global("logs")>>

TestBuilder ==
    [ConfigBuilderDefault EXCEPT
        !.sources = <<[key |-> global("logs"), value |-> SourceOuter("generator")]>>,
        !.global.data_dir = default_data_dir]

Declarations ==
    {[kind |-> k, pipeline |-> "", name |-> n, outputs |-> <<>>] :
        k \in {"source", "transform", "sink", "table"}, n \in {"bar"}}
    \cup {[kind |-> "transform", pipeline |-> "", name |-> "print", outputs |-> <<>>],
          [kind |-> "sink", pipeline |-> "", name |-> "print", outputs |-> <<>>],
          [kind |-> "sink_fed", pipeline |-> "", name |-> "print", outputs |-> <<>>],
          [kind |-> "expanded", pipeline |-> "foo", name |-> "bar", outputs |-> <<>>],
          [kind |-> "provider", pipeline |-> "", name |-> "http", outputs |-> <<>>],
          [kind |-> "test", pipeline |-> "", name |-> "t", outputs |-> <<>>],
          [kind |-> "unhealthy", pipeline |-> "", name |-> "", outputs |-> <<>>]}
    \cup {[kind |-> "pipeline", pipeline |-> p, name |-> n, outputs |-> o] :
        p \in PipelineNames, n \in LocalNames, o \in OutputChoices}

Declare(b, d) ==
    CASE d.kind = "source" ->
             [b EXCEPT !.sources = insert(@, global(d.name), SourceOuter("generator"))]
      [] d.kind = "transform" ->
             [b EXCEPT !.transforms =
                 insert(@, global(d.name), TransformOuter(LogsInputs, "remap_global"))]
      [] d.kind = "sink" ->
             [b EXCEPT !.sinks = insert(@, global(d.name), SinkOuter(<<>>, "console"))]
      [] d.kind = "sink_fed" ->
             [b EXCEPT !.sinks =
                 insert(@, global(d.name), SinkOuter(<<global("bar")>>, "console"))]
      [] d.kind = "table" ->
             [b EXCEPT !.enrichment_tables =
                 insert(@, global(d.name), EnrichmentTableOuter("file"))]
      [] d.kind = "expanded" ->
             [b EXCEPT !.transforms =
                 insert(@, pipeline_id(d.pipeline, d.name),
                        TransformOuter(LogsInputs, "remap_expanded"))]
      [] d.kind = "provider" -> [b EXCEPT !.provider = Some(d.name)]
      [] d.kind = "test" -> [b EXCEPT !.tests = Append(@, TestDefinition(d.name, "test"))]
      [] d.kind = "unhealthy" -> [b EXCEPT !.healthchecks.enabled = FALSE]
      [] d.kind = "pipeline" ->
             [b EXCEPT !.pipelines =
                 declare_in_pipeline(@, d.pipeline, d.name,
                     PipelineTransform(
                         TransformOuter(LogsInputs, "remap_" \o d.pipeline),
                         [i \in 1..Len(d.outputs) |-> global(d.outputs[i])]))]

RECURSIVE DeclaredBuilders(_)
DeclaredBuilders(n) ==
    IF n = 0 THEN {TestBuilder}
    ELSE LET fewer == DeclaredBuilders(n - 1)
         IN  fewer \cup {Declare(b, d) : b \in fewer, d \in Declarations}

\* The transforms of every pipeline are in the order of their names, the
\* order a pipeline is flattened in.
InDeclarationOrder(b) ==
    \A i \in 1..Len(b.pipelines) :
        LET ts == b.pipelines[i].value.transforms
        IN  \A j \in 1..Len(ts), k \in 1..Len(ts) :
                j < k => (ts[j].key = "bar" /\ ts[k].key = "remap")

-----------------------------------------------------------------------------
(* set_pipelines, lines 183-185: the pending pipelines are replaced by the *)
(* argument.  The call is open to every specification; it is explored for *)
(* a few pipelines, while the builder stays within the size the initial   *)
(* builders are drawn from, and a bounded number of times.                *)

set_pipelines(s, pipelines) == [s EXCEPT !.pipelines = pipelines]

MaxCalls == 3

MaxSetPipelines == 1

\* The pipelines handed to set_pipelines: foo with bar wired to the sink
\* print, foo with bar wired to nothing that exists, bar with remap wired to
\* print and to nothing that exists.
PipelineArguments ==
    {Declare(ConfigBuilderDefault,
             [kind |-> "pipeline", pipeline |-> d[1], name |-> d[2], outputs |-> d[3]]).pipelines :
        d \in {<<"foo", "bar", <<"print">>>>,
               <<"foo", "bar", <<"nope">>>>,
               <<"bar", "remap", <<"print", "nope">>>>}}

\* The number of things a builder holds.
Size(b) ==
    Len(b.enrichment_tables) + Len(b.sources) + Len(b.sinks) + Len(b.transforms)
    + Len(b.tests) + Len(b.provider) + Len(into_scoped(b.pipelines))
    + (IF b.healthchecks.enabled THEN 0 ELSE 1)

SetPipelinesCalls == Cardinality({i \in 1..Len(calls) : calls[i].op = "set_pipelines"})

\* self.set_pipelines(pipelines)
SetPipelinesCall ==
    /\ Len(calls) < MaxCalls
    /\ SetPipelinesCalls < MaxSetPipelines
    /\ \E pipelines \in PipelineArguments :
          /\ Size(set_pipelines(self, pipelines)) <= MaxDeclared + 1
          /\ self' = set_pipelines(self, pipelines)
    /\ calls' = Append(calls, [op |-> "set_pipelines", id |-> "", inputs |-> <<>>,
                               config |-> "pipelines"])
    /\ pre' = self
    /\ result' = "Set"
    /\ UNCHANGED <<with, errors>>

-----------------------------------------------------------------------------
InitPipelines ==
    /\ self \in {b \in DeclaredBuilders(MaxDeclared) : InDeclarationOrder(b)}
    /\ with = ConfigBuilderDefault
    /\ pre = self
    /\ errors = <<>>
    /\ result = "none"
    /\ calls = <<>>

\* let (builder, errors) = self.merge_pipelines()
MergePipelinesCall ==
    /\ LET r == merge_pipelines(self)
       IN  /\ self' = r.builder
           /\ errors' = r.errors
    /\ result' = "Merged"
    /\ pre' = self
    /\ UNCHANGED <<with, calls>>

NextPipelines == MergePipelinesCall \/ SetPipelinesCall

SpecPipelines == InitPipelines /\ [][NextPipelines]_vars

-----------------------------------------------------------------------------
(* The programmatic add operations, lines 136-181 *)

\* lines 136-145
add_enrichment_table(s, name, enrichment_table) ==
    [s EXCEPT !.enrichment_tables =
        insert(@, global(name), EnrichmentTableOuter(enrichment_table))]

\* lines 147-150
add_source(s, id, source) ==
    [s EXCEPT !.sources = insert(@, global(id), SourceOuter(source))]

\* lines 152-162
add_sink(s, id, inputs, sink) ==
    LET ids == [i \in 1..Len(inputs) |-> global(inputs[i])]
    IN  [s EXCEPT !.sinks = insert(@, global(id), SinkOuter(ids, sink))]

\* A transform that is only added when its id is free.
AddTransformKeepsFirst(s, id, inputs, transform) ==
    LET ids == [i \in 1..Len(inputs) |-> global(inputs[i])]
    IN  IF contains_key(s.transforms, global(id)) THEN s
        ELSE [s EXCEPT !.transforms = insert(@, global(id), TransformOuter(ids, transform))]

\* lines 164-181
add_transform(s, id, inputs, transform) ==
    LET ids == [i \in 1..Len(inputs) |-> global(inputs[i])]
    IN  [s EXCEPT !.transforms = insert(@, global(id), TransformOuter(ids, transform))]

AddNames == {"foo", "bar"}

AddConfigs == {"first", "second"}

AddInputs == {<<>>, <<"in", "foo">>}

InitAdd ==
    /\ self = ConfigBuilderDefault
    /\ with = ConfigBuilderDefault
    /\ pre = self
    /\ errors = <<>>
    /\ result = "none"
    /\ calls = <<>>

Added(op, id, inputs, config) ==
    /\ Len(calls) < MaxCalls
    /\ calls' = Append(calls, [op |-> op, id |-> id, inputs |-> inputs, config |-> config])
    /\ pre' = self
    /\ result' = "Added"
    /\ UNCHANGED <<with, errors>>

AddEnrichmentTable ==
    \E name \in AddNames, config \in AddConfigs :
        /\ self' = add_enrichment_table(self, name, config)
        /\ Added("add_enrichment_table", name, <<>>, config)

AddSource ==
    \E id \in AddNames, config \in AddConfigs :
        /\ self' = add_source(self, id, config)
        /\ Added("add_source", id, <<>>, config)

AddSink ==
    \E id \in AddNames, inputs \in AddInputs, config \in AddConfigs :
        /\ self' = add_sink(self, id, inputs, config)
        /\ Added("add_sink", id, inputs, config)

AddTransform ==
    \E id \in AddNames, inputs \in AddInputs, config \in AddConfigs :
        /\ self' = add_transform(self, id, inputs, config)
        /\ Added("add_transform", id, inputs, config)

NextAdd == AddEnrichmentTable \/ AddSource \/ AddSink \/ AddTransform \/ SetPipelinesCall

SpecAdd == InitAdd /\ [][NextAdd]_vars

-----------------------------------------------------------------------------
(* impl From<Config> for ConfigBuilder, lines 52-68.  A Config has the     *)
(* global options, the healthchecks, the four entity collections and the   *)
(* tests of a builder.                                                     *)

\* A conversion that leaves the tests behind.
FromWithoutTests(c) ==
    [global            |-> c.global,
     healthchecks      |-> c.healthchecks,
     enrichment_tables |-> c.enrichment_tables,
     sources           |-> c.sources,
     sinks             |-> c.sinks,
     transforms        |-> c.transforms,
     provider          |-> None,
     tests             |-> <<>>,
     pipelines         |-> <<>>]

from(c) ==
    [global            |-> c.global,
     healthchecks      |-> c.healthchecks,
     enrichment_tables |-> c.enrichment_tables,
     sources           |-> c.sources,
     sinks             |-> c.sinks,
     transforms        |-> c.transforms,
     provider          |-> None,
     tests             |-> c.tests,
     pipelines         |-> <<>>]

\* The Configs converted: what the declared builders hold, pipelines and
\* provider aside.
ConfigOf(b) ==
    [global            |-> b.global,
     healthchecks      |-> b.healthchecks,
     enrichment_tables |-> b.enrichment_tables,
     sources           |-> b.sources,
     sinks             |-> b.sinks,
     transforms        |-> b.transforms,
     tests             |-> b.tests]

Configs == {ConfigOf(b) : b \in DeclaredBuilders(MaxDeclared)}

InitConvert ==
    /\ self = ConfigBuilderDefault
    /\ with = ConfigBuilderDefault
    /\ pre = self
    /\ errors = <<>>
    /\ result = "none"
    /\ calls = <<>>

\* ConfigBuilder::from(c)
FromConfigCall ==
    /\ result = "none"
    /\ \E c \in Configs :
          /\ self' = from(c)
          /\ calls' = <<[op |-> "from", config |-> c]>>
    /\ pre' = self
    /\ result' = "Converted"
    /\ UNCHANGED <<with, errors>>

NextConvert == FromConfigCall \/ MergePipelinesCall \/ SetPipelinesCall

SpecConvert == InitConvert /\ [][NextConvert]_vars

-----------------------------------------------------------------------------
(* Properties of append, checked under SpecAppend *)

Called == result \in {"Ok", "Err"}

EntityCollections == {"enrichment_tables", "sources", "sinks", "transforms"}

test_names(b) == {b.tests[i].name : i \in 1..Len(b.tests)}

\* A key of with is a key of the same collection of self, or a test of with
\* has the name of a test of self.
HasDuplicate(s, w) ==
    \/ \E c \in EntityCollections : key_set(s[c]) \cap key_set(w[c]) # {}
    \/ test_names(s) \cap test_names(w) # {}

SameCollections(a, b) ==
    /\ \A c \in EntityCollections : a[c] = b[c]
    /\ a.tests = b.tests

DataDirConflict == "conflicting values for 'data_dir' found"

Occurrences(seq, x) == Cardinality({i \in 1..Len(seq) : seq[i] = x})

IsCustomDir(d) == d # None /\ d # default_data_dir

\* C1 (atomic append): when with duplicates a key of self in one of the four
\* entity collections, or a test name of self, append returns an error and
\* the four collections and the tests of self are what they were before.
C1_AtomicAppend ==
    (Called /\ HasDuplicate(pre, with)) =>
        (result = "Err" /\ errors # <<>> /\ SameCollections(self, pre))

\* A rejected append whose only duplicate is a test name, while with also
\* brings a source and self holds a source of another name.
C1_Witness ==
    /\ result = "Err"
    /\ test_names(pre) \cap test_names(with) # {}
    /\ \A c \in EntityCollections : key_set(pre[c]) \cap key_set(with[c]) = {}
    /\ with.sources # <<>>
    /\ pre.sources # <<>>

IsEmptyBuilder(b) ==
    /\ \A c \in EntityCollections : b[c] = <<>>
    /\ b.tests = <<>>
    /\ b.pipelines = <<>>
    /\ b.provider = None
    /\ b.healthchecks = HealthcheckDefault
    /\ b.global.log_schema = LogSchemaDefault
    /\ b.global.data_dir \in {None, default_data_dir}

\* C2 as stated (idempotent merge): appending the empty builder succeeds and
\* leaves every field of self as it was.
C2_Original ==
    (Called /\ with = ConfigBuilderDefault) => (result = "Ok" /\ self = pre)

\* C2 as amended: appending an empty builder leaves the entity collections,
\* the tests, the log schema, the healthchecks and the pending pipelines of
\* self as they were; the provider of self is discarded; a data directory
\* that is unset or the built-in default is replaced by the empty builder's;
\* and the call succeeds except when self has a custom data directory and
\* the empty builder's is unset, which is reported as a data_dir conflict.
C2_AppendEmpty ==
    (Called /\ IsEmptyBuilder(with)) =>
        /\ self = [pre EXCEPT !.provider = None,
                              !.global.data_dir =
                                  IF IsCustomDir(pre.global.data_dir)
                                  THEN pre.global.data_dir
                                  ELSE with.global.data_dir]
        /\ IF IsCustomDir(pre.global.data_dir) /\ with.global.data_dir = None
           THEN result = "Err" /\ errors = <<DataDirConflict>>
           ELSE result = "Ok" /\ errors = <<>>

\* The default builder appended to a builder that has a provider and a
\* custom data directory: the provider is dropped and the call is rejected.
C2_Witness ==
    /\ result = "Err"
    /\ with = ConfigBuilderDefault
    /\ pre.provider # None
    /\ IsCustomDir(pre.global.data_dir)
    /\ self.provider = None
    /\ self.global.data_dir = pre.global.data_dir

\* C8 (provider overwrite): after append returns, Ok or Err, the provider of
\* self is the provider with had.
C8_ProviderOverwrite == Called => self.provider = with.provider

\* A rejected append of a builder without provider to one that had one.
C8_Witness ==
    /\ result = "Err"
    /\ pre.provider # None
    /\ with.provider = None
    /\ self.provider = None

\* C9 (data directory policy): self unset or default adopts with's value
\* without a data_dir error; otherwise a with value that is not the default
\* and differs from self's is a conflict error, self keeps its value and no
\* collection is extended; otherwise self keeps its value without error.
C9_DataDirPolicy ==
    Called =>
        LET sd == pre.global.data_dir
            wd == with.global.data_dir
        IN  IF sd = None \/ sd = default_data_dir
            THEN /\ self.global.data_dir = wd
                 /\ Occurrences(errors, DataDirConflict) = 0
            ELSE IF wd # default_data_dir /\ wd # sd
            THEN /\ Occurrences(errors, DataDirConflict) = 1
                 /\ self.global.data_dir = sd
                 /\ result = "Err"
                 /\ SameCollections(self, pre)
            ELSE /\ self.global.data_dir = sd
                 /\ Occurrences(errors, DataDirConflict) = 0

\* self had the built-in default, with a custom directory and a duplicate
\* key: the append is rejected and the directory adopted all the same.
C9_Witness ==
    /\ result = "Err"
    /\ pre.global.data_dir = default_data_dir
    /\ IsCustomDir(with.global.data_dir)
    /\ self.global.data_dir = with.global.data_dir
    /\ HasDuplicate(pre, with)

\* C10 (successful append): when append returns Ok, every collection of self
\* is what it was followed by with's entries in with's order, entries
\* unchanged, and the key sets that were joined are disjoint.
C10_SuccessfulAppend ==
    (Called /\ errors = <<>>) =>
        /\ result = "Ok"
        /\ \A c \in EntityCollections :
              /\ self[c] = pre[c] \o with[c]
              /\ key_set(pre[c]) \cap key_set(with[c]) = {}
              /\ key_set(self[c]) = key_set(pre[c]) \cup key_set(with[c])
        /\ self.tests = pre.tests \o with.tests

\* A successful append of two sinks to a builder that has one.
C10_Witness ==
    /\ result = "Ok"
    /\ Len(pre.sinks) = 1
    /\ Len(with.sinks) = 2
    /\ Len(self.sinks) = 3

-----------------------------------------------------------------------------
(* Properties of merge_pipelines, checked under SpecPipelines *)

Merged == result = "Merged"

\* The (scoped id, pipeline transform) pairs the call went through.
Expanded == into_scoped(pre.pipelines)

\* The names of the global-scope sources and transforms before the call.
OccupiedBefore ==
    {pre.transforms[i].key.id :
        i \in {j \in 1..Len(pre.transforms) : pre.transforms[j].key.scope = GlobalScope}}
    \cup {pre.sources[i].key.id :
        i \in {j \in 1..Len(pre.sources) : pre.sources[j].key.scope = GlobalScope}}

Rejected(t) == t.component_id.id \in OccupiedBefore

AlreadyUsed(name) == "Component ID '" \o name \o "' is already used."

NotFound(name) == "Couldn't find transform or sink '" \o name \o "'"

RECURSIVE Concat(_)
Concat(seqs) == IF seqs = <<>> THEN <<>> ELSE Head(seqs) \o Concat(Tail(seqs))

IsPrefix(a, b) == Len(a) <= Len(b) /\ SubSeq(b, 1, Len(a)) = a

ScenarioBase ==
    [TestBuilder EXCEPT
        !.sinks = <<[key |-> global("print"), value |-> SinkOuter(<<>>, "console")]>>]

OnePipeline(p, n, outputs) ==
    [key   |-> p,
     value |-> Pipeline(<<[key   |-> n,
                           value |-> PipelineTransform(
                                         TransformOuter(LogsInputs, "remap_" \o p),
                                         outputs)]>>)]

\* Scenario A: source logs, sink print, pipeline foo with transform bar.
ScenarioA ==
    [ScenarioBase EXCEPT
        !.pipelines = <<OnePipeline("foo", "bar", <<global("print")>>)>>]

\* Scenario B: as A, with a global transform bar that print reads.
ScenarioB ==
    [ScenarioA EXCEPT
        !.transforms = <<[key   |-> global("bar"),
                          value |-> TransformOuter(LogsInputs, "remap_global")]>>,
        !.sinks = <<[key   |-> global("print"),
                     value |-> SinkOuter(<<global("bar")>>, "console")]>>]

\* Scenario C: pipelines foo and bar both declare a transform remap.
ScenarioC ==
    [ScenarioBase EXCEPT
        !.pipelines = <<OnePipeline("foo", "remap", <<global("print")>>),
                        OnePipeline("bar", "remap", <<global("print")>>)>>]

\* C3 (global-shadow rejection): every pipeline transform whose local name
\* is the name of a global-scope source or transform of the builder yields
\* one "already used" error, is not inserted under its scoped id, and the
\* global entities stay in place; in Scenario B that error is the whole
\* error list.
C3_GlobalShadowRejection ==
    Merged =>
        /\ \A i \in 1..Len(Expanded) :
              LET t == Expanded[i] IN
              Rejected(t) =>
                 /\ Occurrences(errors, AlreadyUsed(t.component_id.id)) =
                        Cardinality({j \in 1..Len(Expanded) :
                                        Expanded[j].component_id.id = t.component_id.id})
                 /\ contains_key(self.transforms, t.component_id)
                        <=> contains_key(pre.transforms, t.component_id)
                 /\ contains_key(self.transforms, t.component_id)
                        => get(self.transforms, t.component_id)
                               = get(pre.transforms, t.component_id)
                 /\ self.sources = pre.sources
                 /\ \A j \in 1..Len(pre.transforms) :
                       pre.transforms[j].key = global(t.component_id.id) =>
                          /\ self.transforms[j].key = pre.transforms[j].key
                          /\ self.transforms[j].value.inner = pre.transforms[j].value.inner
                          /\ IsPrefix(pre.transforms[j].value.inputs,
                                      self.transforms[j].value.inputs)
        /\ pre = ScenarioB => errors = <<AlreadyUsed("bar")>>

\* A pipeline transform rejected because a source has its name.
C3_Witness ==
    /\ Merged
    /\ \E i \in 1..Len(Expanded) :
          /\ contains_key(pre.sources, global(Expanded[i].component_id.id))
          /\ ~contains_key(pre.transforms, global(Expanded[i].component_id.id))
          /\ ~contains_key(self.transforms, Expanded[i].component_id)
          /\ errors = <<AlreadyUsed(Expanded[i].component_id.id)>>

\* C4 (pipeline scoping): two pipelines that declare a transform of the same
\* local name, a name no global-scope source or transform has, both get
\* their transform inserted under its scoped id without an "already used"
\* error; in Scenario C there is no error and there are two transforms.
C4_PipelineScoping ==
    Merged =>
        /\ \A i \in 1..Len(Expanded), j \in 1..Len(Expanded) :
              LET a == Expanded[i]
                  b == Expanded[j]
              IN  (/\ a.component_id.id = b.component_id.id
                   /\ a.component_id.scope # b.component_id.scope
                   /\ ~Rejected(a))
                  => /\ Occurrences(errors, AlreadyUsed(a.component_id.id)) = 0
                     /\ a.component_id # b.component_id
                     /\ contains_key(self.transforms, a.component_id)
                     /\ contains_key(self.transforms, b.component_id)
                     /\ get(self.transforms, a.component_id) = a.transform.inner
                     /\ get(self.transforms, b.component_id) = b.transform.inner
        /\ pre = ScenarioC => (errors = <<>> /\ Len(self.transforms) = 2)

\* Scenario C expanded.
C4_Witness ==
    /\ Merged
    /\ pre = ScenarioC
    /\ keys(self.transforms) = <<pipeline_id("foo", "remap"), pipeline_id("bar", "remap")>>

\* The errors the claim expects, in processing order.
ExpectedErrors ==
    Concat([i \in 1..Len(Expanded) |->
        IF Rejected(Expanded[i])
        THEN <<AlreadyUsed(Expanded[i].component_id.id)>>
        ELSE LET unresolved ==
                     SelectSeq(Expanded[i].transform.outputs,
                               LAMBDA o : /\ ~contains_key(pre.transforms, o)
                                          /\ ~contains_key(pre.sinks, o))
             IN  [k \in 1..Len(unresolved) |-> NotFound(unresolved[k].id)]])

\* C5 (error accumulation): the errors returned are, in processing order,
\* one "already used" error for every rejected pipeline transform and one
\* "couldn't find" error for every output of a transform that is not
\* rejected that names neither a transform nor a sink.
C5_ErrorAccumulation == Merged => errors = ExpectedErrors

\* A rejected transform followed by a transform with two unresolved outputs.
C5_Witness ==
    /\ Merged
    /\ Len(errors) = 3
    /\ errors[1] = AlreadyUsed("bar")
    /\ errors[2] = NotFound("nope")
    /\ errors[3] = NotFound("gone")

\* The scoped ids wired to the entity named k, in processing order;
\* to_sink tells whether k is looked for among the sinks.
WiredTo(k, to_sink) ==
    Concat([i \in 1..Len(Expanded) |->
        IF Rejected(Expanded[i]) THEN <<>>
        ELSE LET hits == SelectSeq(Expanded[i].transform.outputs,
                                   LAMBDA o : /\ o = k
                                              /\ to_sink = ~contains_key(pre.transforms, o))
             IN  [n \in 1..Len(hits) |-> Expanded[i].component_id]])

\* C6 (output wiring): every output of a transform that is not rejected adds
\* the scoped id at the end of the inputs of the transform of that name, and
\* of the sink of that name when there is no such transform, in declaration
\* order; in Scenario A there is no error, one transform, and print reads it.
C6_OutputWiring ==
    Merged =>
        /\ \A i \in 1..Len(pre.transforms) :
              is_global(pre.transforms[i].key) =>
                 /\ self.transforms[i].key = pre.transforms[i].key
                 /\ self.transforms[i].value.inputs =
                        pre.transforms[i].value.inputs
                        \o WiredTo(pre.transforms[i].key, FALSE)
        /\ keys(self.sinks) = keys(pre.sinks)
        /\ \A i \in 1..Len(pre.sinks) :
              self.sinks[i].value.inputs =
                  pre.sinks[i].value.inputs \o WiredTo(pre.sinks[i].key, TRUE)
        /\ pre = ScenarioA =>
              /\ errors = <<>>
              /\ keys(self.transforms) = <<pipeline_id("foo", "bar")>>
              /\ get(self.sinks, global("print")).inputs = <<pipeline_id("foo", "bar")>>

\* An output that names a transform and a sink: the transform got the edge.
C6_Witness ==
    /\ Merged
    /\ contains_key(pre.transforms, global("print"))
    /\ contains_key(pre.sinks, global("print"))
    /\ get(self.transforms, global("print")).inputs
           = LogsInputs \o <<pipeline_id("foo", "remap")>>
    /\ get(self.sinks, global("print")) = get(pre.sinks, global("print"))

\* C7 (insertion regardless of the outputs): every pipeline transform that
\* is not rejected is in the transforms under its scoped id with its
\* configuration, whether its outputs resolved or not.
C7_InsertedRegardless ==
    Merged =>
        \A i \in 1..Len(Expanded) :
            ~Rejected(Expanded[i]) =>
                /\ contains_key(self.transforms, Expanded[i].component_id)
                /\ get(self.transforms, Expanded[i].component_id)
                       = Expanded[i].transform.inner

\* A transform none of whose two outputs resolved, inserted all the same.
C7_Witness ==
    /\ Merged
    /\ \E i \in 1..Len(Expanded) :
          /\ Len(Expanded[i].transform.outputs) = 2
          /\ errors = <<NotFound("nope"), NotFound("gone")>>
          /\ ~contains_key(pre.transforms, Expanded[i].component_id)
          /\ contains_key(self.transforms, Expanded[i].component_id)

-----------------------------------------------------------------------------
(* Further properties of append, checked under SpecAppend *)

\* The kind a duplicate message names for each entity collection.
KindOf(c) ==
    CASE c = "enrichment_tables" -> "enrichment_table"
      [] c = "sources"           -> "source"
      [] c = "sinks"             -> "sink"
      [] c = "transforms"        -> "transform"

\* The message of the form "duplicate <kind> id found: <key>".
DuplicateIdMessage(c, k) == "duplicate " \o KindOf(c) \o " id found: " \o k.id

\* The message append has for a duplicate key of collection c.
DuplicateMessage(c, k) ==
    IF c = "enrichment_tables"
    THEN "duplicate enrichment_table name found: " \o k.id
    ELSE DuplicateIdMessage(c, k)

DuplicateTestMessage(n) == "duplicate test name found: " \o n

\* C11 as stated (duplicate-key diagnostics): every key of with that self has
\* in the same collection yields exactly one error
\* "duplicate <kind> id found: <key>", in each of the four collections.
C11_Original ==
    Called =>
        \A c \in EntityCollections : \A k \in key_set(with[c]) :
            k \in key_set(pre[c]) => Occurrences(errors, DuplicateIdMessage(c, k)) = 1

\* C11 as amended: every key of with that self has in the same collection
\* yields exactly one error, "duplicate enrichment_table name found: <key>"
\* for an enrichment table and "duplicate <kind> id found: <key>" for a
\* source, sink or transform; every test of with whose name a test of self
\* has yields one "duplicate test name found: <name>"; a key that self only
\* has in another collection yields no error.
C11_DuplicateDiagnostics ==
    Called =>
        /\ \A c \in EntityCollections : \A k \in key_set(with[c]) :
              Occurrences(errors, DuplicateMessage(c, k)) =
                  IF k \in key_set(pre[c]) THEN 1 ELSE 0
        /\ \A n \in test_names(with) :
              Occurrences(errors, DuplicateTestMessage(n)) =
                  IF n \in test_names(pre)
                  THEN Cardinality({i \in 1..Len(with.tests) : with.tests[i].name = n})
                  ELSE 0

\* with repeats a source of self and brings a sink whose name self only
\* has as a source: one error, for the source.
C11_Witness ==
    /\ result = "Err"
    /\ \E k \in key_set(with.sources) \cap key_set(pre.sources) :
          errors = <<"duplicate source id found: " \o k.id>>
    /\ pre.sinks = <<>>
    /\ \E k \in key_set(with.sinks) : k \in key_set(pre.sources)

Unique(names) == \A i, j \in 1..Len(names) : names[i] = names[j] => i = j

TestNameSeq(b) == [i \in 1..Len(b.tests) |-> b.tests[i].name]

\* C19 (uniqueness preserved): when the test names are unique within self
\* and within with and append returns Ok, the test names of self are unique
\* afterwards; and an append that returns Ok leaves every entry self had in
\* the four entity collections at its place with its value, every key
\* occurring once.
C19_UniquenessPreserved ==
    result = "Ok" =>
        /\ (Unique(TestNameSeq(pre)) /\ Unique(TestNameSeq(with)))
              => Unique(TestNameSeq(self))
        /\ \A c \in EntityCollections :
              /\ IsPrefix(pre[c], self[c])
              /\ Unique(keys(self[c]))

\* A successful append of a test and a transform to a builder that has a
\* test and a transform of other names.
C19_Witness ==
    /\ result = "Ok"
    /\ Len(pre.tests) = 1
    /\ Len(with.tests) = 1
    /\ Len(self.tests) = 2
    /\ Unique(TestNameSeq(self))
    /\ Len(pre.transforms) = 1
    /\ Len(self.transforms) = 2

-----------------------------------------------------------------------------
(* Properties of the add operations, checked under SpecAdd *)

CollectionOf(op) ==
    CASE op = "add_enrichment_table" -> "enrichment_tables"
      [] op = "add_source"           -> "sources"
      [] op = "add_sink"             -> "sinks"
      [] op = "add_transform"        -> "transforms"
      [] OTHER                       -> "pipelines"

\* The calls that added the name to the collection, by their position.
CallsFor(c, name) ==
    {i \in 1..Len(calls) : CollectionOf(calls[i].op) = c /\ calls[i].id = name}

Last(S) == CHOOSE i \in S : \A j \in S : j <= i

\* What the collection holds for a call: the configuration, and for a sink
\* or a transform the inputs as global ids.
EntryOf(call) ==
    IF call.op \in {"add_sink", "add_transform"}
    THEN [inputs |-> [i \in 1..Len(call.inputs) |->
                         [id |-> call.inputs[i], scope |-> GlobalScope]],
          inner  |-> call.config]
    ELSE [inner |-> call.config]

\* C12 (last writer wins): after any sequence of add calls every collection
\* holds, for every name added to it, exactly one entry, under the global id
\* of the name, with the configuration and inputs of the last call for that
\* name, and nothing else; no error is recorded, and the last call left the
\* other three collections as they were.  Calls of set_pipelines may come
\* in between: they leave the four collections alone, and an add call
\* leaves the pending pipelines alone.
C12_LastWriterWins ==
    /\ errors = <<>>
    /\ \A c \in EntityCollections :
          /\ \A i \in 1..Len(self[c]) :
                /\ self[c][i].key.scope = GlobalScope
                /\ CallsFor(c, self[c][i].key.id) # {}
          /\ \A name \in AddNames :
                CallsFor(c, name) # {} =>
                   /\ Cardinality({i \in 1..Len(self[c]) :
                                      self[c][i].key = [id |-> name, scope |-> GlobalScope]}) = 1
                   /\ \A i \in 1..Len(self[c]) :
                         self[c][i].key.id = name =>
                            self[c][i].value = EntryOf(calls[Last(CallsFor(c, name))])
    /\ calls # <<>> =>
          \A c \in EntityCollections \ {CollectionOf(calls[Len(calls)].op)} :
              self[c] = pre[c]
    /\ (calls # <<>> /\ calls[Len(calls)].op # "set_pipelines") =>
          self.pipelines = pre.pipelines
    /\ self.tests = <<>> /\ self.provider = None

\* A transform added twice under one id with different inputs and
\* configurations, then a sink of the same name: the second transform holds.
C12_Witness ==
    /\ Len(calls) = 3
    /\ calls[1].op = "add_transform" /\ calls[2].op = "add_transform"
    /\ calls[3].op = "add_sink"
    /\ calls[1].id = calls[2].id /\ calls[2].id = calls[3].id
    /\ calls[1].config # calls[2].config
    /\ calls[1].inputs # calls[2].inputs
    /\ Len(self.transforms) = 1
    /\ self.transforms[1].value.inner = calls[2].config
    /\ Len(self.transforms[1].value.inputs) = Len(calls[2].inputs)

-----------------------------------------------------------------------------
(* Properties of the conversion from a Config, checked under SpecConvert *)

FromConversion == Len(calls) = 1 /\ calls[1].op = "from"

ConfigFields ==
    {"global", "healthchecks", "enrichment_tables", "sources", "sinks",
     "transforms", "tests"}

\* C13 (conversion from a Config): the builder made from a Config has the
\* global options, healthchecks, entity collections and tests of the Config,
\* no provider and no pending pipelines; merge_pipelines on it reports no
\* error and leaves the transforms, and every other field, as converted.
\* (FromConversion: nothing but merge_pipelines was called since.)
C13_FromConfig ==
    FromConversion =>
        /\ \A f \in ConfigFields : self[f] = calls[1].config[f]
        /\ self.provider = None
        /\ self.pipelines = <<>>
        /\ Merged => errors = <<>>

\* merge_pipelines called on the conversion of a Config that holds a
\* transform under a scoped id, a sink and a test.
C13_Witness ==
    /\ Merged
    /\ FromConversion
    /\ \E i \in 1..Len(self.transforms) : self.transforms[i].key.scope # GlobalScope
    /\ self.sinks # <<>>
    /\ self.tests # <<>>

-----------------------------------------------------------------------------
(* Further properties of merge_pipelines, checked under SpecPipelines *)

ExpandedIds == {Expanded[i].component_id : i \in 1..Len(Expanded)}

\* The name is that of a sink, of an enrichment table or of a transform
\* under a scoped id of the builder before the call.
NamedOutsideNamespace(name) ==
    \/ \E k \in key_set(pre.sinks) \cup key_set(pre.enrichment_tables) : k.id = name
    \/ \E k \in key_set(pre.transforms) : k.scope # GlobalScope /\ k.id = name

\* C14 (namespace check): a pipeline transform whose local name is that of
\* a sink, an enrichment table or a pipeline-scoped transform already
\* present, but of no global-scope transform or source, gets no "already
\* used" error and is inserted under its scoped id.
C14_NamespaceCheck ==
    Merged =>
        \A i \in 1..Len(Expanded) :
            LET t == Expanded[i] IN
            (NamedOutsideNamespace(t.component_id.id) /\ ~Rejected(t)) =>
                /\ Occurrences(errors, AlreadyUsed(t.component_id.id)) = 0
                /\ contains_key(self.transforms, t.component_id)
                /\ get(self.transforms, t.component_id) = t.transform.inner

\* Pipeline bar declares a transform bar while the builder holds a sink bar
\* and the transform bar of pipeline foo: it is inserted without error.
C14_Witness ==
    /\ Merged
    /\ errors = <<>>
    /\ contains_key(pre.sinks, global("bar"))
    /\ keys(pre.transforms) = <<pipeline_id("foo", "bar")>>
    /\ keys(self.transforms) = <<pipeline_id("foo", "bar"), pipeline_id("bar", "bar")>>

\* C15 (pipelines cleared): the builder returned has no pending pipelines,
\* with or without errors; and a call on a builder without pending
\* pipelines, as the returned one is, reports no error and leaves the
\* transforms and the sinks, input lists included, as they were.
C15_PipelinesCleared ==
    Merged =>
        /\ self.pipelines = <<>>
        /\ pre.pipelines = <<>> =>
              /\ errors = <<>>
              /\ self.transforms = pre.transforms
              /\ self.sinks = pre.sinks

\* The second call on a builder whose first expansion wired a sink.
C15_Witness ==
    /\ Merged
    /\ pre.pipelines = <<>>
    /\ self = pre
    /\ \E i \in 1..Len(pre.sinks) :
          \E j \in 1..Len(pre.sinks[i].value.inputs) :
              /\ pre.sinks[i].value.inputs[j].scope # GlobalScope
              /\ contains_key(pre.transforms, pre.sinks[i].value.inputs[j])

\* The ids the call appended to the inputs of an entity.
AppendedInputs(before, after) ==
    SubSeq(after.value.inputs, Len(before.value.inputs) + 1, Len(after.value.inputs))

\* The ids the call appended to any input list: those of the sinks and of
\* the transforms under global ids (the others are never looked up).
AppendedIds ==
    UNION {{AppendedInputs(pre.sinks[i], self.sinks[i])[j] :
               j \in 1..(Len(self.sinks[i].value.inputs) - Len(pre.sinks[i].value.inputs))} :
           i \in 1..Len(pre.sinks)}
    \cup UNION {{AppendedInputs(pre.transforms[i], self.transforms[i])[j] :
               j \in 1..(Len(self.transforms[i].value.inputs)
                         - Len(pre.transforms[i].value.inputs))} :
           i \in {n \in 1..Len(pre.transforms) : is_global(pre.transforms[n].key)}}

InputIds(m) == UNION {{m[i].value.inputs[j] : j \in 1..Len(m[i].value.inputs)} :
                      i \in 1..Len(m)}

\* C16 as stated (no dangling injected edge): every id the call appended to
\* an input list is a key of the returned transforms, and the scoped id of
\* a rejected pipeline transform is in no input list and is not a key of
\* the returned transforms.
C16_Original ==
    Merged =>
        /\ AppendedIds \subseteq key_set(self.transforms)
        /\ \A i \in 1..Len(Expanded) :
              Rejected(Expanded[i]) =>
                 /\ Expanded[i].component_id \notin InputIds(self.sinks)
                 /\ Expanded[i].component_id \notin InputIds(self.transforms)
                 /\ ~contains_key(self.transforms, Expanded[i].component_id)

\* C16 as amended: every id the call appended to an input list is a key of
\* the returned transforms; the scoped id of a rejected pipeline transform
\* is appended to no input list and is not inserted: it is a key of the
\* returned transforms, or in an input list, only if it was before the call.
C16_NoDanglingEdge ==
    Merged =>
        /\ AppendedIds \subseteq key_set(self.transforms)
        /\ \A i \in 1..Len(Expanded) :
              Rejected(Expanded[i]) =>
                 /\ Expanded[i].component_id \notin AppendedIds
                 /\ Expanded[i].component_id \in InputIds(self.sinks)
                        => Expanded[i].component_id \in InputIds(pre.sinks)
                 /\ Expanded[i].component_id \in InputIds(self.transforms)
                        => Expanded[i].component_id \in InputIds(pre.transforms)
                 /\ contains_key(self.transforms, Expanded[i].component_id)
                        <=> contains_key(pre.transforms, Expanded[i].component_id)

\* A rejected transform with an output that names a sink: the sink keeps
\* its inputs and the transform is not inserted.
C16_Witness ==
    /\ Merged
    /\ \E i \in 1..Len(Expanded) :
          /\ Rejected(Expanded[i])
          /\ Expanded[i].transform.outputs # <<>>
          /\ \A j \in 1..Len(Expanded[i].transform.outputs) :
                contains_key(pre.sinks, Expanded[i].transform.outputs[j])
          /\ ~contains_key(self.transforms, Expanded[i].component_id)
    /\ self.sinks = pre.sinks
    /\ AppendedIds = {}

\* C17 (provider dropped): the builder returned has no provider, also when
\* the builder the call was made on had one.
C17_ProviderDropped == Merged => self.provider = None

\* A call on a builder with a provider and a pending pipeline.
C17_Witness ==
    /\ Merged
    /\ pre.provider # None
    /\ pre.pipelines # <<>>
    /\ self.provider = None

\* C18 (frame): the call leaves the global options, the healthchecks, the
\* enrichment tables, the sources and the tests as they were, adds and
\* removes no sink, and leaves every sink, and every transform whose key is
\* not a scoped id being expanded, under its key at its place with its
\* configuration and with its former inputs as a prefix of its inputs.
C18_Frame ==
    Merged =>
        /\ self.global = pre.global
        /\ self.healthchecks = pre.healthchecks
        /\ self.enrichment_tables = pre.enrichment_tables
        /\ self.sources = pre.sources
        /\ self.tests = pre.tests
        /\ keys(self.sinks) = keys(pre.sinks)
        /\ \A i \in 1..Len(pre.sinks) :
              /\ self.sinks[i].value.inner = pre.sinks[i].value.inner
              /\ IsPrefix(pre.sinks[i].value.inputs, self.sinks[i].value.inputs)
        /\ Len(self.transforms) >= Len(pre.transforms)
        /\ \A i \in 1..Len(pre.transforms) :
              pre.transforms[i].key \notin ExpandedIds =>
                 /\ self.transforms[i].key = pre.transforms[i].key
                 /\ self.transforms[i].value.inner = pre.transforms[i].value.inner
                 /\ IsPrefix(pre.transforms[i].value.inputs,
                             self.transforms[i].value.inputs)

\* A global transform with an input gets an edge appended, in a builder
\* with healthchecks switched off.
C18_Witness ==
    /\ Merged
    /\ ~pre.healthchecks.enabled
    /\ \E i \in 1..Len(pre.transforms) :
          /\ is_global(pre.transforms[i].key)
          /\ pre.transforms[i].value.inputs # <<>>
          /\ Len(self.transforms[i].value.inputs) > Len(pre.transforms[i].value.inputs)

====
